---- MODULE Spec2Model ----
(***************************************************************************)
(* Model of backend/app/main.py, the SmartAgroX satellite API: the three   *)
(* date-accepting handlers get_ndvi, get_historical_ndvi and               *)
(* get_satellite_imagery.                                                  *)
(*                                                                         *)
(* Numbers.  The handlers compute with binary floating point; the model    *)
(* computes in fixed point, an integer n standing for n / Scale, products  *)
(* and quotients rounded down to that resolution.  Strings are sequences   *)
(* of one-character strings, so that parsing and formatting are computed   *)
(* character by character.                                                 *)
(***************************************************************************)
EXTENDS Integers, Sequences, FiniteSets, TLC

VARIABLES
    pc,             \* "idle" | "hist_loop" | "done": where the served request stands
    endpoint,       \* "none" | "ndvi" | "historical" | "imagery"
    request,        \* the request's parameters
    draws,          \* the values the random sources handed out, in order
    month,          \* local `month` (0: not computed)
    season_factor,  \* local `season_factor` (meaningful when month # 0)
    current,        \* get_historical_ndvi: local `current` (a date)
    end,            \* get_historical_ndvi: local `end` (a date)
    last_ndvi,      \* get_historical_ndvi: local `last_ndvi`
    dates,          \* get_historical_ndvi: local `dates`
    ndvi_values,    \* local `ndvi_values` (both handlers)
    response        \* the HTTP response (status 0: none yet)

vars == <<pc, endpoint, request, draws, month, season_factor, current, end,
          last_ndvi, dates, ndvi_values, response>>

----------------------------------------------------------------------------
(* Bounds of the model *)

\* get_ndvi draws num_samples = 1000 values and returns at most 100 of them;
\* the model keeps both proportions small.
num_samples == 3
SubsampleCap == 2
\* get_historical_ndvi is followed for ranges of at most MaxSpanDays days.
MaxSpanDays == 60

----------------------------------------------------------------------------
(* Fixed point *)

Scale == 10^4

Max(a, b) == IF a >= b THEN a ELSE b
Min(a, b) == IF a <= b THEN a ELSE b

\* x * (num/den), rounded down
Times(x, num, den) == (x * num) \div den

RECURSIVE SumSeq(_)
SumSeq(s) == IF s = <<>> THEN 0 ELSE Head(s) + SumSeq(Tail(s))

RECURSIVE MinSeq(_)
MinSeq(s) == IF Len(s) = 1 THEN s[1] ELSE Min(Head(s), MinSeq(Tail(s)))

RECURSIVE MaxSeq(_)
MaxSeq(s) == IF Len(s) = 1 THEN s[1] ELSE Max(Head(s), MaxSeq(Tail(s)))

\* np.mean / float(np.mean(...))
Mean(s) == SumSeq(s) \div Len(s)

----------------------------------------------------------------------------
(* Calendar dates: datetime, strptime, strftime, timedelta *)

DigitChars == <<"0", "1", "2", "3", "4", "5", "6", "7", "8", "9">>
IsDigit(c) == \E i \in 1..10 : DigitChars[i] = c
DigitVal(c) == (CHOOSE i \in 1..10 : DigitChars[i] = c) - 1

_is_leap(y) == y % 4 = 0 /\ (y % 100 # 0 \/ y % 400 = 0)

_days_in_month(y, m) ==
    IF m = 2 THEN (IF _is_leap(y) THEN 29 ELSE 28)
    ELSE IF m \in {4, 6, 9, 11} THEN 30 ELSE 31

RECURSIVE _days_before_month(_, _)
_days_before_month(y, m) ==
    IF m = 1 THEN 0 ELSE _days_before_month(y, m - 1) + _days_in_month(y, m - 1)

_days_before_year(y) ==
    (y - 1) * 365 + (y - 1) \div 4 - (y - 1) \div 100 + (y - 1) \div 400

\* a date is a record [year, month, day]; its ordinal counts days from 0001-01-01
_ymd2ord(y, m, d) == _days_before_year(y) + _days_before_month(y, m) + d

Date(y, m, d) == [year |-> y, month |-> m, day |-> d]
toordinal(dt) == _ymd2ord(dt.year, dt.month, dt.day)

MINYEAR == 1
MAXYEAR == 9999
MaxOrdinal == _ymd2ord(MAXYEAR, 12, 31)

_ord2ymd(n) ==
    LET y == CHOOSE yy \in Max(MINYEAR, n \div 366)..Min(MAXYEAR, n \div 365 + 1) :
                 _days_before_year(yy) < n /\ n <= _days_before_year(yy + 1)
        r == n - _days_before_year(y)
        m == CHOOSE mm \in 1..12 :
                 _days_before_month(y, mm) < r
                 /\ r <= _days_before_month(y, mm) + _days_in_month(y, mm)
    IN  Date(y, m, r - _days_before_month(y, m))

\* datetime comparison current <= end
DateLE(a, b) == toordinal(a) <= toordinal(b)

\* current + timedelta(days): OverflowError outside 0001-01-01 .. 9999-12-31
AddDaysOverflows(dt, days) ==
    LET n == toordinal(dt) + days IN n < 1 \/ n > MaxOrdinal
AddDays(dt, days) == _ord2ymd(toordinal(dt) + days)

\* the decimal digits of n >= 0, without padding
RECURSIVE Decimal(_)
Decimal(n) ==
    IF n < 10 THEN <<DigitChars[n + 1]>>
    ELSE Decimal(n \div 10) \o <<DigitChars[(n % 10) + 1]>>

TwoDigits(n) == <<DigitChars[(n \div 10) + 1], DigitChars[(n % 10) + 1]>>

\* strftime("%Y-%m-%d"): %m and %d are zero-padded to two digits, %Y is the
\* year as the C library prints it (glibc: no padding)
strftime(dt) ==
    Decimal(dt.year) \o <<"-">> \o TwoDigits(dt.month) \o <<"-">> \o TwoDigits(dt.day)

\* strptime's pattern for "%Y-%m-%d":
\*   (\d\d\d\d)-(1[0-2]|0[1-9]|[1-9])-(3[01]|[12]\d|0[1-9]|[1-9]| [1-9])
\* The length of the month alternative matching s at p and followed by "-" (0: none)
MonthLen(s, p) ==
    LET c1 == IF p <= Len(s) THEN s[p] ELSE ""
        c2 == IF p + 1 <= Len(s) THEN s[p + 1] ELSE ""
        c3 == IF p + 2 <= Len(s) THEN s[p + 2] ELSE ""
        two == (c1 = "1" /\ c2 \in {"0", "1", "2"})
               \/ (c1 = "0" /\ IsDigit(c2) /\ c2 # "0")
        one == IsDigit(c1) /\ c1 # "0"
    IN  IF two /\ c3 = "-" THEN 2
        ELSE IF one /\ c2 = "-" THEN 1
        ELSE 0

\* The length of the first day alternative matching s at p (0: none)
DayLen(s, p) ==
    LET c1 == IF p <= Len(s) THEN s[p] ELSE ""
        c2 == IF p + 1 <= Len(s) THEN s[p + 1] ELSE ""
        two == (c1 = "3" /\ c2 \in {"0", "1"})
               \/ (c1 \in {"1", "2"} /\ IsDigit(c2))
               \/ (c1 = "0" /\ IsDigit(c2) /\ c2 # "0")
               \/ (c1 = " " /\ IsDigit(c2) /\ c2 # "0")
        one == IsDigit(c1) /\ c1 # "0"
    IN  IF two THEN 2 ELSE IF one THEN 1 ELSE 0

RECURSIVE Number(_)
Number(cs) ==
    IF cs = <<>> THEN 0
    ELSE LET c == cs[Len(cs)]
         IN  Number(SubSeq(cs, 1, Len(cs) - 1)) * 10 + (IF c = " " THEN 0 ELSE DigitVal(c))

ParseError(msg) == [ok |-> FALSE, error |-> msg, value |-> Date(0, 0, 0)]

\* re.match of the pattern at the start of s: whether it matches, where the match
\* stops, and the three groups
_strptime_match(s) ==
    IF ~(Len(s) >= 5 /\ (\A i \in 1..4 : IsDigit(s[i])) /\ s[5] = "-")
    THEN [found |-> FALSE, stop |-> 0, Y |-> 0, m |-> 0, d |-> 0]
    ELSE
    LET ml == MonthLen(s, 6)
        dl == IF ml = 0 THEN 0 ELSE DayLen(s, 6 + ml + 1)
    IN  IF ml = 0 \/ dl = 0
        THEN [found |-> FALSE, stop |-> 0, Y |-> 0, m |-> 0, d |-> 0]
        ELSE [found |-> TRUE, stop |-> 6 + ml + 1 + dl,
              Y |-> Number(SubSeq(s, 1, 4)),
              m |-> Number(SubSeq(s, 6, 5 + ml)),
              d |-> Number(SubSeq(s, 7 + ml, 6 + ml + dl))]

\* datetime(year, month, day): ValueError for a date the calendar does not have
_new_datetime(y, m, d) ==
    IF y < MINYEAR \/ y > MAXYEAR THEN ParseError("year 0 is out of range")
    ELSE IF d > _days_in_month(y, m) THEN ParseError("day is out of range for month")
    ELSE [ok |-> TRUE, error |-> "", value |-> Date(y, m, d)]

\* mutant of strptime: text after the match is ignored
strptimeIgnoringRest(s) ==
    LET f == _strptime_match(s)
    IN  IF ~f.found THEN ParseError("does not match format")
        ELSE _new_datetime(f.Y, f.m, f.d)

\* datetime.strptime(s, "%Y-%m-%d"): the date, or the ValueError it raises
strptime(s) ==
    LET f == _strptime_match(s)
    IN  IF ~f.found THEN ParseError("does not match format")
        ELSE IF f.stop # Len(s) + 1 THEN ParseError("unconverted data remains")
        ELSE _new_datetime(f.Y, f.m, f.d)

----------------------------------------------------------------------------
(* Inputs *)

ValidDates ==
    {Date(2024, 1, 1), Date(2024, 2, 29), Date(2024, 3, 15), Date(2024, 4, 15),
     Date(2024, 5, 15), Date(2024, 6, 15), Date(2024, 7, 15), Date(2024, 8, 15),
     Date(2024, 9, 15), Date(2024, 10, 15), Date(2024, 11, 15), Date(2024, 12, 20),
     Date(2025, 1, 5), Date(9999, 12, 15), Date(9999, 12, 31)}

\* day-month-year, as in "15-07-2024"
FormatDMY(dt) ==
    TwoDigits(dt.day) \o <<"-">> \o TwoDigits(dt.month) \o <<"-">> \o Decimal(dt.year)

\* year-month-day without zero padding, as in "2024-7-5"
FormatUnpadded(dt) ==
    Decimal(dt.year) \o <<"-">> \o Decimal(dt.month) \o <<"-">> \o Decimal(dt.day)

DateStrings ==
    {strftime(dt) : dt \in ValidDates}
    \cup {FormatDMY(Date(2024, 7, 15)),
          FormatUnpadded(Date(2024, 7, 5)),
          <<"2", "0", "2", "4", "-", "0", "7", "-", " ", "5">>,
          <<"2", "0", "2", "4", "-", "1", "3", "-", "0", "1">>,
          <<"2", "0", "2", "4", "-", "0", "2", "-", "3", "0">>,
          <<"2", "0", "2", "4", "/", "0", "7", "/", "1", "5">>,
          <<"2", "0", "2", "4", "-", "0", "7", "-", "1", "5", "0">>,
          <<"0", "0", "0", "0", "-", "0", "1", "-", "0", "1">>,
          <<>>}

BandNames == {"true-color", "false-color", "ndvi", "thermal"}

\* random.uniform(-0.15, 0.15)
BaseNoise == {-((15 * Scale) \div 100), (15 * Scale) \div 100}
\* a standard normal deviate, in units of 1/Scale
Deviates == {-(3 * Scale), -((5 * Scale) \div 2), -Scale, 2 * Scale}
\* random.uniform(-0.1, 0.1)
InitNoise == {-(Scale \div 10), 0, Scale \div 10}
\* random.uniform(-0.05, 0.05)
StepNoise == {-((5 * Scale) \div 100), 0, (5 * Scale) \div 100}

----------------------------------------------------------------------------
(* The seasonal factor *)

\* np.sin(k * np.pi / 6), to the resolution 1/Scale
SinSixth(k) ==
    LET j == k % 12
        half == Scale \div 2
        r3 == 8660   \* sqrt(3)/2 * Scale
    IN  CASE j = 0  -> 0
          [] j = 1  -> half
          [] j = 2  -> r3
          [] j = 3  -> Scale
          [] j = 4  -> r3
          [] j = 5  -> half
          [] j = 6  -> 0
          [] j = 7  -> -half
          [] j = 8  -> -r3
          [] j = 9  -> -Scale
          [] j = 10 -> -r3
          [] j = 11 -> -half

\* mutant of SeasonFactor: the amplitude 0.5 in place of 0.3
SeasonFactorWide(m) == Scale \div 2 + Times(SinSixth(m - 3), 5, 10)

\* season_factor = 0.5 + 0.3 * np.sin((month - 3) * np.pi / 6)
SeasonFactor(m) == Scale \div 2 + Times(SinSixth(m - 3), 3, 10)

----------------------------------------------------------------------------
(* Responses *)

NoBody == [kind |-> "none"]
NoResponse == [status |-> 0, detail |-> <<>>, body |-> NoBody]

\* raise HTTPException(status_code=500, detail=f"<prefix>{str(e)}")
HTTPException(prefix, message) ==
    [status |-> 500, detail |-> <<prefix, message>>, body |-> NoBody]

OK(body) == [status |-> 200, detail |-> <<>>, body |-> body]

NoDate == Date(0, 0, 0)

----------------------------------------------------------------------------
(* POST /api/ndvi *)

NdviPrefix == "Error processing NDVI data: "
NdviImageBase == "https://example.com/ndvi-images/"

\* max(0.05, min(0.95, base_ndvi))
ClampBase(x) == Max((5 * Scale) \div 100, Min((95 * Scale) \div 100, x))

\* np.random.normal(loc, 0.1, n): loc + 0.1 * (standard normal deviate), elementwise
Normal(loc, zs) == [i \in 1..Len(zs) |-> loc + Times(zs[i], 1, 10)]

\* mutant of Clip01: the clipping left out
NoClip(x) == x

\* np.clip(x, 0, 1)
Clip01(x) == Max(0, Min(Scale, x))

NumZones == 5

\* np.linspace(start, stop, 6): start + i * step with step = (stop - start) / 5
\* (start + (i / 5) * (stop - start) when step is 0), the last point set to stop
Linspace(start, stop) ==
    LET delta == stop - start
        step == delta \div NumZones
    IN  [i \in 0..NumZones |->
            IF i = NumZones THEN stop
            ELSE IF step = 0 THEN start + Times(delta, i, NumZones)
            ELSE start + i * step]

\* mutant of InZone: the upper edge taken as inclusive
InZoneClosed(v, lo, hi) == v >= lo /\ v <= hi

\* the mask (ndvi_values >= zone_edges[i]) & (ndvi_values < zone_edges[i+1])
InZone(v, lo, hi) == v >= lo /\ v < hi

\* ndvi_values[mask]
ZoneData(values, lo, hi) == LET Test(v) == InZone(v, lo, hi) IN SelectSeq(values, Test)

\* mutant of ZonePercentage: the share taken of the zone's own population
ZonePercentageOfZone(zone_data, values) ==
    ((Len(zone_data) * Scale) \div Len(zone_data)) * 100

\* float(len(zone_data) / len(ndvi_values) * 100)
ZonePercentage(zone_data, values) == ((Len(zone_data) * Scale) \div Len(values)) * 100

NDVIZone(lo, hi, zone_data, values) ==
    [min |-> lo, max |-> hi, average |-> Mean(zone_data),
     count |-> Len(zone_data), percentage |-> ZonePercentage(zone_data, values)]

\* the loop `for i in range(5)`, from bin i on: a record for every non-empty bin
RECURSIVE ZonesFrom(_, _, _)
ZonesFrom(i, values, edges) ==
    IF i >= NumZones THEN <<>>
    ELSE LET zone_data == ZoneData(values, edges[i], edges[i + 1])
         IN  (IF Len(zone_data) > 0
              THEN <<NDVIZone(edges[i], edges[i + 1], zone_data, values)>>
              ELSE <<>>) \o ZonesFrom(i + 1, values, edges)

\* sample_size = min(100, len(ndvi_values)), the cap scaled to the model
sample_size(values) == Min(SubsampleCap, Len(values))

\* mutant of Choices: replace=True
ChoicesWithReplacement(n, size) == [1..size -> 1..n]

\* np.random.choice(a, size, replace=False): the positions it may pick, in order
Choices(n, size) ==
    {c \in [1..size -> 1..n] : \A i, j \in 1..size : i # j => c[i] # c[j]}

NDVIResponse(target_date, values, choice) ==
    [kind |-> "ndvi",
     average_ndvi |-> Mean(values),
     min_ndvi |-> MinSeq(values),
     max_ndvi |-> MaxSeq(values),
     ndvi_values |-> [k \in 1..Len(choice) |-> values[choice[k]]],
     ndvi_image_url |-> <<NdviImageBase>> \o strftime(target_date),
     zones |-> ZonesFrom(0, values, Linspace(MinSeq(values), MaxSeq(values)))]

NoDraws == [uniform |-> <<>>, normal |-> <<>>, choice |-> <<>>]

get_ndvi ==
    /\ pc = "idle"
    /\ \E date \in DateStrings :
         LET parsed == strptime(date) IN
         /\ endpoint' = "ndvi"
         /\ request' = [date |-> date]
         /\ pc' = "done"
         /\ UNCHANGED <<current, end, last_ndvi, dates>>
         /\ IF ~parsed.ok
            THEN /\ response' = HTTPException(NdviPrefix, parsed.error)
                 /\ UNCHANGED <<draws, month, season_factor, ndvi_values>>
            ELSE \E u \in BaseNoise, zs \in [1..num_samples -> Deviates] :
                   LET target_date == parsed.value
                       base_ndvi == ClampBase(SeasonFactor(target_date.month) + u)
                       raw == Normal(base_ndvi, zs)
                       values == [i \in 1..num_samples |-> Clip01(raw[i])]
                   IN  \E choice \in Choices(Len(values), sample_size(values)) :
                         /\ month' = target_date.month
                         /\ season_factor' = SeasonFactor(target_date.month)
                         /\ draws' = [uniform |-> <<u>>, normal |-> zs, choice |-> choice]
                         /\ ndvi_values' = values
                         /\ response' = OK(NDVIResponse(target_date, values, choice))

----------------------------------------------------------------------------
(* GET /api/satellite-imagery *)

ImageryPrefix == "Error fetching satellite imagery: "
ImageryBase == "https://example.com/satellite-images/"

get_satellite_imagery ==
    /\ pc = "idle"
    /\ \E date \in DateStrings, bands \in BandNames :
         LET parsed == strptime(date) IN
         /\ endpoint' = "imagery"
         /\ request' = [date |-> date, bands |-> bands]
         /\ pc' = "done"
         /\ response' =
              IF ~parsed.ok
              THEN HTTPException(ImageryPrefix, parsed.error)
              ELSE OK([kind |-> "imagery",
                       image_url |-> <<ImageryBase, bands, "/">> \o strftime(parsed.value)])
         /\ UNCHANGED <<draws, month, season_factor, current, end, last_ndvi, dates,
                        ndvi_values>>

----------------------------------------------------------------------------
(* GET /api/historical-ndvi *)

HistoricalPrefix == "Error processing historical NDVI: "

\* timedelta(days=16)
RevisitDays == 16

trend_factor == (7 * Scale) \div 10
random_factor == (3 * Scale) \div 10

\* mutant of Blend: the previous value taken unweighted
BlendUnweighted(season, last, noise) ==
    (trend_factor * season) \div Scale + last + (noise * random_factor) \div Scale

\* trend_factor * season_factor + (1 - trend_factor) * last_ndvi
\*   + random.uniform(-0.05, 0.05) * random_factor
Blend(season, last, noise) ==
    (trend_factor * season) \div Scale
    + ((Scale - trend_factor) * last) \div Scale
    + (noise * random_factor) \div Scale

\* max(0.1, min(0.9, last_ndvi))
ClampSeries(x) == Max(Scale \div 10, Min((9 * Scale) \div 10, x))

\* mutant of LoopContinues: the operands swapped
LoopContinuesSwapped(cur, e) == DateLE(e, cur)

\* the loop test `current <= end`
LoopContinues(cur, e) == DateLE(cur, e)

\* the two strptime calls and the set-up before the loop
get_historical_ndvi ==
    /\ pc = "idle"
    /\ \E start_date \in DateStrings, end_date \in DateStrings :
         LET s == strptime(start_date)
             e == strptime(end_date)
         IN
         /\ endpoint' = "historical"
         /\ request' = [start_date |-> start_date, end_date |-> end_date]
         /\ UNCHANGED <<month, season_factor, dates, ndvi_values>>
         /\ IF ~s.ok \/ ~e.ok
            THEN /\ response' = HTTPException(HistoricalPrefix,
                                              IF ~s.ok THEN s.error ELSE e.error)
                 /\ pc' = "done"
                 /\ UNCHANGED <<draws, current, end, last_ndvi>>
            ELSE /\ toordinal(e.value) - toordinal(s.value) <= MaxSpanDays
                 /\ \E u \in InitNoise :
                      /\ current' = s.value
                      /\ end' = e.value
                      /\ last_ndvi' = (4 * Scale) \div 10 + u
                      /\ draws' = [NoDraws EXCEPT !.uniform = <<u>>]
                 /\ pc' = "hist_loop"
                 /\ UNCHANGED response

\* one pass of the loop body; the date addition that ends it may overflow
historical_step ==
    /\ pc = "hist_loop"
    /\ LoopContinues(current, end)
    /\ \E noise \in StepNoise :
         LET season == SeasonFactor(current.month)
             updated == ClampSeries(Blend(season, last_ndvi, noise))
         IN  /\ dates' = Append(dates, strftime(current))
             /\ month' = current.month
             /\ season_factor' = season
             /\ last_ndvi' = updated
             /\ ndvi_values' = Append(ndvi_values, updated)
             /\ draws' = [draws EXCEPT !.uniform = Append(@, noise)]
    /\ IF AddDaysOverflows(current, RevisitDays)
       THEN /\ response' = HTTPException(HistoricalPrefix, "date value out of range")
            /\ pc' = "done"
            /\ UNCHANGED current
       ELSE /\ current' = AddDays(current, RevisitDays)
            /\ UNCHANGED <<pc, response>>
    /\ UNCHANGED <<endpoint, request, end>>

\* the loop has ended: return {"dates": dates, "ndvi_values": ndvi_values}
historical_return ==
    /\ pc = "hist_loop"
    /\ ~LoopContinues(current, end)
    /\ response' = OK([kind |-> "historical", dates |-> dates,
                       ndvi_values |-> ndvi_values])
    /\ pc' = "done"
    /\ UNCHANGED <<endpoint, request, draws, month, season_factor, current, end,
                   last_ndvi, dates, ndvi_values>>

----------------------------------------------------------------------------
(* The service *)

Init ==
    /\ pc = "idle"
    /\ endpoint = "none"
    /\ request = [none |-> TRUE]
    /\ draws = NoDraws
    /\ month = 0
    /\ season_factor = 0
    /\ current = NoDate
    /\ end = NoDate
    /\ last_ndvi = 0
    /\ dates = <<>>
    /\ ndvi_values = <<>>
    /\ response = NoResponse

\* the response is sent; nothing of the request outlives it
finish ==
    /\ pc = "done"
    /\ pc' = "idle"
    /\ endpoint' = "none"
    /\ request' = [none |-> TRUE]
    /\ draws' = NoDraws
    /\ month' = 0
    /\ season_factor' = 0
    /\ current' = NoDate
    /\ end' = NoDate
    /\ last_ndvi' = 0
    /\ dates' = <<>>
    /\ ndvi_values' = <<>>
    /\ response' = NoResponse

Next ==
    \/ get_ndvi
    \/ get_historical_ndvi
    \/ historical_step
    \/ historical_return
    \/ get_satellite_imagery
    \/ finish

Spec == Init /\ [][Next]_vars

----------------------------------------------------------------------------
(* Properties *)

Served(ep) == pc = "done" /\ endpoint = ep
Succeeded(ep) == Served(ep) /\ response.status = 200

SumPercentages(zs) == SumSeq([k \in 1..Len(zs) |-> zs[k].percentage])
SumCounts(zs) == SumSeq([k \in 1..Len(zs) |-> zs[k].count])

Occurrences(seq, v) == Cardinality({i \in 1..Len(seq) : seq[i] = v})

\* C1: every successful POST /api/ndvi response has
\* 0 <= min_ndvi <= average_ndvi <= max_ndvi <= 1.
C1_SummaryOrdered ==
    Succeeded("ndvi") =>
        LET b == response.body
        IN  /\ 0 <= b.min_ndvi
            /\ b.min_ndvi <= b.average_ndvi
            /\ b.average_ndvi <= b.max_ndvi
            /\ b.max_ndvi <= Scale

\* a response whose largest draw lay above 1 and was clipped, the three
\* statistics all different
C1_Witness ==
    /\ Succeeded("ndvi")
    /\ response.body.min_ndvi < response.body.average_ndvi
    /\ response.body.average_ndvi < response.body.max_ndvi
    /\ response.body.max_ndvi = Scale
    /\ \E i \in 1..num_samples :
         ClampBase(season_factor + draws.uniform[1]) + Times(draws.normal[i], 1, 10) > Scale

\* The dates the request's two parameters name, once both are parsed
StartOf(req) == strptime(req.start_date).value
EndOf(req) == strptime(req.end_date).value
BothParse(req) == strptime(req.start_date).ok /\ strptime(req.end_date).ok

\* C2: GET /api/historical-ndvi with valid dates, start <= end, returns the dates
\* start, start + 16 days, start + 32 days, ... in order: the first is start,
\* consecutive ones are 16 days apart, each is <= end and the last plus 16 days
\* is > end (start = end gives the one entry start).
C2_SeriesDates ==
    (Served("historical") /\ BothParse(request)
        /\ DateLE(StartOf(request), EndOf(request))) =>
        /\ response.status = 200
        /\ LET ds == response.body.dates
               n == Len(ds)
               first == toordinal(StartOf(request))
           IN  /\ n >= 1
               /\ \A k \in 1..n : ds[k] = strftime(_ord2ymd(first + RevisitDays * (k - 1)))
               /\ first + RevisitDays * (n - 1) <= toordinal(EndOf(request))
               /\ first + RevisitDays * n > toordinal(EndOf(request))

\* C3: with two well-formed dates, start_date > end_date, GET /api/historical-ndvi
\* answers successfully with dates and ndvi_values both empty, and no error; the
\* loop is never entered.
C3_EmptyWhenReversed ==
    (endpoint = "historical" /\ BothParse(request)
        /\ ~DateLE(StartOf(request), EndOf(request))) =>
        /\ pc = "hist_loop" => (dates = <<>> /\ ndvi_values = <<>> /\ ENABLED historical_return)
        /\ pc = "done" => /\ response.status = 200
                          /\ response.body.dates = <<>>
                          /\ response.body.ndvi_values = <<>>

C3_Witness ==
    /\ Served("historical")
    /\ BothParse(request)
    /\ ~DateLE(StartOf(request), EndOf(request))
    /\ response.status = 200

\* C4: every value GET /api/historical-ndvi returns lies in [0.1, 0.9]; there are
\* as many values as dates; and value k is the running value after the update for
\* date k: clamp(0.7 * seasonFactor + 0.3 * previous + 0.3 * noise) into [0.1, 0.9],
\* the previous value of the first being the initial running value.
C4_SeriesValues ==
    Succeeded("historical") =>
        LET vs == response.body.ndvi_values
            ds == response.body.dates
            initial == (4 * Scale) \div 10 + draws.uniform[1]
        IN  /\ Len(vs) = Len(ds)
            /\ Len(draws.uniform) = Len(vs) + 1
            /\ \A k \in 1..Len(vs) :
                 LET previous == IF k = 1 THEN initial ELSE vs[k - 1]
                     season == SeasonFactor(strptime(ds[k]).value.month)
                     noise == draws.uniform[k + 1]
                     blend == (7 * season) \div 10 + (3 * previous) \div 10
                              + (3 * noise) \div 10
                 IN  /\ Scale \div 10 <= vs[k]
                     /\ vs[k] <= (9 * Scale) \div 10
                     /\ vs[k] = Max(Scale \div 10, Min((9 * Scale) \div 10, blend))

\* a returned series of three values that are not all the same
C4_Witness ==
    /\ Succeeded("historical")
    /\ Len(response.body.ndvi_values) = 3
    /\ response.body.ndvi_values[1] # response.body.ndvi_values[2]
    /\ response.body.ndvi_values[2] # response.body.ndvi_values[3]

\* The request's date parameters
DateParams(req) ==
    IF endpoint = "historical" THEN {req.start_date, req.end_date} ELSE {req.date}

OwnPrefix ==
    CASE endpoint = "ndvi" -> NdviPrefix
      [] endpoint = "historical" -> HistoricalPrefix
      [] endpoint = "imagery" -> ImageryPrefix

Rejected ==
    /\ response.status = 500
    /\ response.detail[1] = OwnPrefix
    /\ response.body = NoBody

\* YYYY-MM-DD: four digits, two digits, two digits, with "-" between
IsYYYYMMDD(s) ==
    /\ Len(s) = 10
    /\ s[5] = "-" /\ s[8] = "-"
    /\ \A i \in {1, 2, 3, 4, 6, 7, 9, 10} : IsDigit(s[i])

\* year-month-day with a four-digit year, the month and the day of one or two
\* digits each, the day's first digit possibly a space
IsYearMonthDay(s) ==
    \E ml \in 1..2, dl \in 1..2 :
        /\ Len(s) = 6 + ml + dl
        /\ \A i \in 1..4 : IsDigit(s[i])
        /\ s[5] = "-" /\ s[6 + ml] = "-"
        /\ \A i \in 6..(5 + ml) : IsDigit(s[i])
        /\ IsDigit(s[Len(s)])
        /\ dl = 2 => (IsDigit(s[Len(s) - 1]) \/ s[Len(s) - 1] = " ")

\* C5 as claimed: on each date-accepting endpoint a date string that is not in
\* YYYY-MM-DD format yields HTTP 500 with the endpoint's own prefix and no part
\* of a normal result.
C5_NotYYYYMMDDRejected ==
    (endpoint # "none" /\ \E s \in DateParams(request) : ~IsYYYYMMDD(s)) =>
        (pc = "done" /\ Rejected)

\* C5, amended: on each date-accepting endpoint a date string that is not a
\* four-digit year, a month and a day in that order, separated by "-", the month
\* and the day of one or two digits each (the day's leading zero possibly a
\* space), yields HTTP 500 with the endpoint's own prefix and no part of a normal
\* result; on historical-ndvi when either of the two dates is such a string.
C5_MalformedRejected ==
    (endpoint # "none" /\ \E s \in DateParams(request) : ~IsYearMonthDay(s)) =>
        (pc = "done" /\ Rejected)

\* historical-ndvi rejecting a well-formed start_date with "15-07-2024" as end_date
C5_Witness ==
    /\ Served("historical")
    /\ strptime(request.start_date).ok
    /\ request.end_date = FormatDMY(Date(2024, 7, 15))
    /\ Rejected

\* C6: in every POST /api/ndvi response the zones' percentages sum to at most
\* 100, to exactly 100 when every sample falls into some bin, and each zone's
\* percentage is its count divided by the whole sample population, times 100.
C6_PercentagesBounded ==
    Succeeded("ndvi") =>
        LET zs == response.body.zones
        IN  /\ SumPercentages(zs) <= 100 * Scale
            /\ SumCounts(zs) = Len(ndvi_values) =>
                   SumPercentages(zs) = 100 * Scale
            /\ \A k \in 1..Len(zs) :
                   zs[k].percentage = ((zs[k].count * Scale) \div Len(ndvi_values)) * 100

\* two zones are returned, holding every sample but the largest: their
\* percentages sum to less than 100
C6_Witness ==
    /\ Succeeded("ndvi")
    /\ Len(response.body.zones) = 2
    /\ SumCounts(response.body.zones) = Len(ndvi_values) - 1
    /\ SumPercentages(response.body.zones) < 100 * Scale

\* C7: the ndvi_values of a POST /api/ndvi response are min(cap, number of
\* samples) many, each in [0, 1], and drawn without replacement: no value is
\* returned more often than it occurs among the samples.
C7_SubsampleWithoutReplacement ==
    Succeeded("ndvi") =>
        LET out == response.body.ndvi_values
        IN  /\ Len(out) = Min(SubsampleCap, num_samples)
            /\ \A k \in 1..Len(out) : 0 <= out[k] /\ out[k] <= Scale
            /\ \A k \in 1..Len(out) :
                   Occurrences(out, out[k]) <= Occurrences(ndvi_values, out[k])

\* fewer values are returned than were sampled, among them one twice, which two
\* of the samples have
C7_Witness ==
    /\ Succeeded("ndvi")
    /\ Len(response.body.ndvi_values) < Len(ndvi_values)
    /\ \E k \in 1..Len(response.body.ndvi_values) :
         /\ Occurrences(response.body.ndvi_values, response.body.ndvi_values[k]) = 2
         /\ Occurrences(ndvi_values, response.body.ndvi_values[k]) = 2

\* C8: the seasonal factor either operation computes, for a month 1..12, lies in
\* [0.2, 0.8].
C8_SeasonFactorBounded ==
    month # 0 =>
        /\ month \in 1..12
        /\ endpoint \in {"ndvi", "historical"}
        /\ (2 * Scale) \div 10 <= season_factor
        /\ season_factor <= (8 * Scale) \div 10

\* the series reaches a December date, whose factor is the lower bound itself
C8_Witness ==
    /\ endpoint = "historical"
    /\ month = 12
    /\ season_factor = (2 * Scale) \div 10

\* C9: over the months 1..12 the seasonal factor is greatest in month 7 and
\* least in month 1: no computed factor is above July's or below January's.
C9_PeakJulyTroughJanuary ==
    month # 0 =>
        /\ season_factor <= SeasonFactor(7)
        /\ season_factor >= SeasonFactor(1)

InRange(v, z) == z.min <= v /\ v < z.max

\* C10: in POST /api/ndvi zoning every sample is counted in at most one zone, in
\* none exactly when it equals the maximum; the counts sum to the number of
\* samples below the maximum (no zone when min = max); the zones are ascending,
\* each with count >= 1 and min <= average < max.
C10_ZonesPartition ==
    Succeeded("ndvi") =>
        LET zs == response.body.zones
            top == response.body.max_ndvi
            n == Len(ndvi_values)
            ZonesOf(v) == {k \in 1..Len(zs) : InRange(v, zs[k])}
        IN  /\ \A i \in 1..n : Cardinality(ZonesOf(ndvi_values[i])) <= 1
            /\ \A i \in 1..n : (ZonesOf(ndvi_values[i]) = {}) <=> (ndvi_values[i] = top)
            /\ \A k \in 1..Len(zs) :
                   /\ zs[k].count = Cardinality({i \in 1..n : InRange(ndvi_values[i], zs[k])})
                   /\ zs[k].count >= 1
                   /\ zs[k].min <= zs[k].average
                   /\ zs[k].average < zs[k].max
            /\ SumCounts(zs) = n - Occurrences(ndvi_values, top)
            /\ response.body.min_ndvi = top => zs = <<>>
            /\ \A k \in 1..(Len(zs) - 1) : zs[k].max <= zs[k + 1].min

\* two zones, the upper one beginning exactly at a sample (a sample on an inner
\* edge), the lower one holding two samples of different value
C10_Witness ==
    /\ Succeeded("ndvi")
    /\ Len(response.body.zones) = 2
    /\ \E i \in 1..Len(ndvi_values) : ndvi_values[i] = response.body.zones[2].min

\* a single zone holding two samples of different value, its average strictly
\* between its bounds
C10_WitnessSpread ==
    /\ Succeeded("ndvi")
    /\ Len(response.body.zones) = 1
    /\ response.body.zones[1].count = 2
    /\ response.body.zones[1].min < response.body.zones[1].average

====
